---- MODULE Spec2Model ----
(***************************************************************************)
(* A model of ttyrant's terminal core:                                     *)
(*   - crates/ansi/src/vt.rs      the byte-at-a-time escape-sequence       *)
(*                                parser (VTParser, Params)                *)
(*   - ansi/src/ansi.rs           the command interpreter (AnsiParser)     *)
(*   - crates/ttyrant/src/cell.rs the sparse screen buffer (Buffer, Line)  *)
(*   - crates/ttyrant/src/pty.rs and application.rs                        *)
(*                                the PTY reader thread and the owner's    *)
(*                                redraw/drain handler                     *)
(* Each component has its own specifications over the shared variables:    *)
(* SpecVT, SpecDigits, SpecCsi for the parser; SpecAnsi, SpecCup, SpecSgr, *)
(* SpecSplit, SpecNarrow for the interpreter; SpecLine, SpecBuffer for the *)
(* screen buffer; SpecPty, FairSpecPty, FairSpecSession for the session.   *)
(***************************************************************************)
EXTENDS Integers, Sequences, FiniteSets

VARIABLES
    parser,           \* VTParser: [state, params, intermediates]
    action,           \* the Action returned by the last parse_byte call
    panicked,         \* a parse_byte call aborted (arithmetic overflow panic)
    overflow_checks,  \* build profile: TRUE = overflow checks on (debug)
    fed,              \* number of bytes fed so far
    output,           \* AnsiParser::parse: commands passed to the callback by the last call
    csi,              \* history: the bytes of the escape sequence fed (SpecCsi, SpecSgr)
    line,             \* one Line (SpecLine)
    shadow,           \* SpecLine: column -> cell of the most recent set (reference map)
    buffer,           \* Buffer: [lines, width, height]
    rpc,              \* reader thread: position in Pty::read_output
    rbuf,             \* reader thread: the chunk decoded by the current read
    rexit,            \* reader thread: the match arm through which it left its loop
    pending,          \* child output not yet read from the master descriptor
    produced,         \* number of chunks the child has written so far
    childAlive,       \* the child still holds the slave side open
    chan,             \* mpsc channel: chunks sent and not yet received
    sent,             \* history: chunks pushed onto the channel, in order
    decoded,          \* history: successfully decoded non-empty reads, in order
    received,         \* history: chunks returned by try_read, in order
    wakeups,          \* history: number of request_redraw calls made by the reader
    redraw,           \* a RedrawRequested event is pending in the event loop
    opc,              \* owner: position in the RedrawRequested handler
    content,          \* Application.content (sequence of appended chunks)
    app,              \* Application: [window_state, pty, window]
    created           \* history: calls of resumed, Pty values built, reader threads spawned

vars == <<parser, action, panicked, overflow_checks, fed, output, csi, line, shadow,
          buffer, rpc, rbuf, rexit, pending, produced, childAlive, chan, sent, decoded,
          received, wakeups, redraw, opc, content, app, created>>

vtVars   == <<parser, action, panicked, overflow_checks, fed, output, csi>>
lineVars == <<line, shadow>>
bufVars  == <<buffer>>
ptyVars  == <<rpc, rbuf, rexit, pending, produced, childAlive, chan, sent, decoded,
              received, wakeups, redraw, opc, content, app, created>>

(***************************************************************************)
(* Option<T>: None is the empty sequence, Some(v) the one-element sequence *)
(***************************************************************************)
NoneOpt == <<>>
Some(v) == <<v>>
IsSome(o) == Len(o) = 1
unwrap_or(o, d) == IF IsSome(o) THEN o[1] ELSE d

(***************************************************************************)
(* 32-bit signed arithmetic (i32).  wrapping_add never leaves the i32      *)
(* range while it is evaluated.                                            *)
(***************************************************************************)
I32_MAX == 2147483647
I32_MIN == (-2147483647) - 1

add_overflows(x, y) ==
    \/ (x > 0 /\ y > 0 /\ x > I32_MAX - y)
    \/ (x < 0 /\ y < 0 /\ x < I32_MIN - y)

wrapping_add(x, y) ==
    IF x > 0 /\ y > 0 /\ x > I32_MAX - y
      THEN (x + I32_MIN) + (y + I32_MIN)
    ELSE IF x < 0 /\ y < 0 /\ x < I32_MIN - y
      THEN (x - I32_MIN) + (y - I32_MIN)
    ELSE x + y

mul10_overflows(x) == x > I32_MAX \div 10 \/ x < -(I32_MAX \div 10)

wrapping_mul10(x) ==
    LET x2 == wrapping_add(x, x)
        x4 == wrapping_add(x2, x2)
        x8 == wrapping_add(x4, x4)
    IN  wrapping_add(x8, x2)

(***************************************************************************)
(* vt.rs: State, Action, Params, VTParser                                  *)
(***************************************************************************)
State == {"Ground", "Escape", "EscapeIntermediate", "CsiEntry", "CsiParam",
          "CsiIntermediate", "CsiIgnore", "OscString"}

\* Action values.  Every Action is a record [tag, byte, params]; variants
\* without a payload carry byte 0 and no params.
\* a printable byte returned as Execute
ActPrint_exec(c)     == [tag |-> "Execute", byte |-> c, params |-> <<>>]

ActPrint(c)          == [tag |-> "Print", byte |-> c, params |-> <<>>]
ActExecute(b)        == [tag |-> "Execute", byte |-> b, params |-> <<>>]
CsiDispatch(b, ps)   == [tag |-> "CsiDispatch", byte |-> b, params |-> ps]
\* an escape dispatch returned as Hook
EscDispatch_hook(b)  == [tag |-> "Hook", byte |-> b, params |-> <<>>]

EscDispatch(b)       == [tag |-> "EscDispatch", byte |-> b, params |-> <<>>]
ActionNone           == [tag |-> "None", byte |-> 0, params |-> <<>>]

PARAMS_CAPACITY == 16

\* a Params::default() that starts with one stored (absent) field
Params_default_one == [data |-> <<NoneOpt>>, current |-> NoneOpt, has_current |-> FALSE]

\* impl Default for Params: len 0, current None, has_current false.  data
\* holds the len initialised entries (the rest of the array is never read).
Params_default == [data |-> <<>>, current |-> NoneOpt, has_current |-> FALSE]

\* Params::push_digit: current = Some(current.unwrap_or(0) * 10 + digit).
\* The i32 arithmetic panics on overflow when the build checks overflow and
\* wraps otherwise; push_digit_panics tells which calls abort.
push_digit_panics(p, digit, checks) ==
    LET cur == unwrap_or(p.current, 0)
        d   == digit - 48
    IN  checks /\ (mul10_overflows(cur) \/ add_overflows(cur * 10, d))

\* push_digit without the multiplication by ten
push_digit_sum(p, digit) ==
    [p EXCEPT !.current = Some(unwrap_or(p.current, 0) + (digit - 48)),
              !.has_current = TRUE]

push_digit(p, digit) ==
    LET cur == unwrap_or(p.current, 0)
        d   == digit - 48
    IN  [p EXCEPT !.current = Some(wrapping_add(wrapping_mul10(cur), d)),
                  !.has_current = TRUE]

\* finish_param storing the accumulator whether or not a digit was seen
finish_param_zero(p) ==
    LET stored == IF Len(p.data) < PARAMS_CAPACITY
                    THEN Append(p.data, Some(unwrap_or(p.current, 0)))
                    ELSE p.data
    IN  [data |-> stored, current |-> NoneOpt, has_current |-> FALSE]

\* finish_param without the capacity test
finish_param_uncapped(p) ==
    [data |-> Append(p.data, IF p.has_current THEN p.current ELSE NoneOpt),
     current |-> NoneOpt, has_current |-> FALSE]

\* Params::finish_param
finish_param(p) ==
    LET stored == IF Len(p.data) < PARAMS_CAPACITY
                    THEN Append(p.data, IF p.has_current THEN p.current ELSE NoneOpt)
                    ELSE p.data
    IN  [data |-> stored, current |-> NoneOpt, has_current |-> FALSE]

\* Params::as_slice
as_slice(p) == p.data

\* impl Default for VTParser
VTParser_default ==
    [state |-> "Ground", params |-> Params_default, intermediates |-> <<>>]

\* VTParser::parse_byte, one match arm per disjunct, first match wins.
\* Result: [parser, action, panic].
Ret(p, a) == [parser |-> p, action |-> a, panic |-> FALSE]
Abort(p)  == [parser |-> p, action |-> ActionNone, panic |-> TRUE]

\* the (Escape, 0x5B) arm without the reset of self.params
enter_csi_keep(p) == [p EXCEPT !.state = "CsiEntry"]

\* the (Escape, 0x5B) arm: self.state = CsiEntry; self.params = Params::default()
enter_csi(p) == [p EXCEPT !.state = "CsiEntry", !.params = Params_default]

parse_byte(p, byte, checks) ==
    LET st == p.state IN
    IF st = "Ground" /\ byte = 27 THEN
        Ret([p EXCEPT !.state = "Escape"], ActionNone)
    ELSE IF st = "Ground" /\ byte \in 32..127 THEN
        Ret(p, ActPrint(byte))
    ELSE IF st = "Ground" /\ byte \in 0..31 THEN
        Ret(p, ActExecute(byte))
    ELSE IF st = "Escape" /\ byte = 91 THEN
        Ret(enter_csi(p), ActionNone)
    ELSE IF st = "Escape" /\ byte \in 32..47 THEN
        Ret([p EXCEPT !.state = "EscapeIntermediate",
                      !.intermediates = Append(@, byte)], ActionNone)
    ELSE IF st = "Escape" /\ byte \in 48..126 THEN
        Ret([p EXCEPT !.state = "Ground"], EscDispatch(byte))
    ELSE IF st = "CsiEntry" /\ byte \in 48..57 THEN
        IF push_digit_panics(p.params, byte, checks)
          THEN Abort([p EXCEPT !.state = "CsiParam"])
          ELSE Ret([p EXCEPT !.state = "CsiParam",
                             !.params = push_digit(@, byte)], ActionNone)
    ELSE IF st = "CsiEntry" /\ byte = 59 THEN
        Ret([p EXCEPT !.state = "CsiParam", !.params = finish_param(@)], ActionNone)
    ELSE IF st = "CsiEntry" /\ byte \in 64..126 THEN
        Ret([p EXCEPT !.state = "Ground"], CsiDispatch(byte, as_slice(p.params)))
    ELSE IF st = "CsiParam" /\ byte \in 48..57 THEN
        IF push_digit_panics(p.params, byte, checks)
          THEN Abort(p)
          ELSE Ret([p EXCEPT !.params = push_digit(@, byte)], ActionNone)
    ELSE IF st = "CsiParam" /\ byte = 59 THEN
        Ret([p EXCEPT !.params = finish_param(@)], ActionNone)
    ELSE IF st = "CsiParam" /\ byte \in 64..126 THEN
        LET ps == finish_param(p.params) IN
        Ret([p EXCEPT !.state = "Ground", !.params = ps], CsiDispatch(byte, as_slice(ps)))
    ELSE
        Ret([p EXCEPT !.state = "Ground"], ActionNone)

(***************************************************************************)
(* ansi.rs: Color, AnsiCommand, Sgr, AnsiParser                            *)
(* A command is a tuple <<name, field, ...>>.                              *)
(***************************************************************************)
\* a conversion to u16 that clamps at u16::MAX
as_u16_saturating(v) == IF v > 65535 THEN 65535 ELSE v

\* `as u16`, `as u8` of an i32: the low 16, 8 bits
as_u16(v) == v % 65536
as_u8(v)  == v % 256

Color_Default       == <<"Default">>
Color_Indexed(i)    == <<"Indexed", i>>
Color_RGB(r, g, b)  == <<"RGB", r, g, b>>

\* iter = params.iter().flatten().copied(): the Some values, in order
RECURSIVE flatten(_)
flatten(params) ==
    IF params = <<>> THEN <<>>
    ELSE IF IsSome(Head(params)) THEN <<Head(params)[1]>> \o flatten(Tail(params))
    ELSE flatten(Tail(params))

\* parse_color! with the RGB operands taken in the order b, g, r
parse_color_bgr(rest, color_type) ==
    IF Len(rest) >= 1 /\ rest[1] = 5 THEN
        IF Len(rest) >= 2 THEN Some(<<color_type, <<"Indexed", rest[2] % 256>> >>)
        ELSE NoneOpt
    ELSE IF Len(rest) >= 1 /\ rest[1] = 2 THEN
        IF Len(rest) >= 4
          THEN Some(<<color_type, <<"RGB", rest[4] % 256, rest[3] % 256, rest[2] % 256>> >>)
          ELSE NoneOpt
    ELSE NoneOpt

\* parse_color!(iter, color_type): the Option<Sgr> it evaluates to, given the
\* values left in the iterator
parse_color(rest, color_type) ==
    IF Len(rest) >= 1 /\ rest[1] = 5 THEN
        IF Len(rest) >= 2 THEN Some(<<color_type, Color_Indexed(as_u8(rest[2]))>>)
        ELSE NoneOpt
    ELSE IF Len(rest) >= 1 /\ rest[1] = 2 THEN
        IF Len(rest) >= 4
          THEN Some(<<color_type, Color_RGB(as_u8(rest[2]), as_u8(rest[3]), as_u8(rest[4]))>>)
          ELSE NoneOpt
    ELSE NoneOpt

\* the match on one code inside interpret_sgr's loop: [ret, value]; ret is
\* FALSE for the `_ => {}` arm, which goes on to the next code
sgr_code(code, rest) ==
    LET R(v) == [ret |-> TRUE, value |-> v] IN
    CASE code = 0  -> R(Some(<<"Reset">>))
      [] code = 1  -> R(Some(<<"Bold">>))
      [] code = 2  -> R(Some(<<"Faint">>))
      [] code = 3  -> R(Some(<<"Italic">>))
      [] code = 4  -> R(Some(<<"Underlined", TRUE>>))
      [] code = 5  -> R(Some(<<"Blink", "Slow">>))
      [] code = 6  -> R(Some(<<"Blink", "Rapid">>))
      [] code = 7  -> R(Some(<<"Inverted", TRUE>>))
      [] code = 8  -> R(Some(<<"Conceal", TRUE>>))
      [] code = 9  -> R(Some(<<"CrossedOut", TRUE>>))
      [] code = 10 -> R(Some(<<"PrimaryFont">>))
      [] code \in 11..19 -> R(Some(<<"AlternativeFont", as_u8(code - 10)>>))
      [] code = 20 -> R(Some(<<"Fraktur">>))
      [] code = 21 -> R(Some(<<"DoublyUnderlined">>))
      [] code = 22 -> R(Some(<<"Regular">>))
      [] code = 23 -> R(Some(<<"NeitherItalicNorBlackletter">>))
      [] code = 24 -> R(Some(<<"Underlined", FALSE>>))
      [] code = 25 -> R(Some(<<"Blink", "Static">>))
      [] code = 26 -> R(Some(<<"ProportionalSpacing", TRUE>>))
      [] code = 27 -> R(Some(<<"Inverted", FALSE>>))
      [] code = 28 -> R(Some(<<"Conceal", FALSE>>))
      [] code = 29 -> R(Some(<<"CrossedOut", FALSE>>))
      [] code \in 30..37 -> R(Some(<<"ForegroundColor", Color_Indexed(as_u8(code - 30))>>))
      [] code = 38 -> R(parse_color(rest, "ForegroundColor"))
      [] code = 39 -> R(Some(<<"ForegroundColor", Color_Default>>))
      [] code \in 40..47 -> R(Some(<<"BackgroundColor", Color_Indexed(as_u8(code - 40))>>))
      [] code = 48 -> R(parse_color(rest, "BackgroundColor"))
      [] code = 49 -> R(Some(<<"BackgroundColor", Color_Default>>))
      [] code = 50 -> R(Some(<<"ProportionalSpacing", FALSE>>))
      [] code = 51 -> R(Some(<<"Framed">>))
      [] code = 52 -> R(Some(<<"Encircled">>))
      [] code = 53 -> R(Some(<<"Overlined", TRUE>>))
      [] code = 54 -> R(Some(<<"NeitherFramedNorEncircled">>))
      [] code = 55 -> R(Some(<<"Overlined", FALSE>>))
      [] code = 58 -> R(parse_color(rest, "UnderlineColor"))
      [] code = 59 -> R(Some(<<"UnderlineColor", Color_Default>>))
      [] OTHER     -> [ret |-> FALSE, value |-> NoneOpt]

\* the `while let Some(code) = iter.next()` loop of interpret_sgr
RECURSIVE sgr_loop(_)
sgr_loop(codes) ==
    IF codes = <<>> THEN NoneOpt
    ELSE LET m == sgr_code(Head(codes), Tail(codes)) IN
         IF m.ret THEN m.value ELSE sgr_loop(Tail(codes))

\* interpret_sgr without the params.is_empty() test
interpret_sgr_loop_only(params) == sgr_loop(flatten(params))

\* AnsiParser::interpret_sgr: Option<Sgr>
interpret_sgr(params) ==
    IF params = <<>> THEN Some(<<"Reset">>) ELSE sgr_loop(flatten(params))

\* every parameter read from the first field
param_or_first(params, i, d) ==
    IF Len(params) >= 1 THEN unwrap_or(params[1], d) ELSE d

\* params.first() / params.get(1), .copied().flatten().unwrap_or(1)
param_or(params, i, d) ==
    IF Len(params) >= i THEN unwrap_or(params[i], d) ELSE d

\* interpret_action passing on every action that carries a byte
interpret_action_loud(a) ==
    IF a.tag = "None" THEN NoneOpt ELSE Some(<<"Print", a.byte>>)

\* AnsiParser::interpret_action: Option<AnsiCommand>
interpret_action(a) ==
    IF a.tag = "Print" THEN Some(<<"Print", a.byte>>)
    ELSE IF a.tag = "CsiDispatch" THEN
        LET p1 == as_u16(param_or(a.params, 1, 1)) IN
        CASE a.byte = 65 -> Some(<<"CursorUp", p1>>)
          [] a.byte = 66 -> Some(<<"CursorDown", p1>>)
          [] a.byte = 67 -> Some(<<"CursorForward", p1>>)
          [] a.byte = 68 -> Some(<<"CursorBackward", p1>>)
          [] a.byte \in {72, 102} ->
                Some(<<"CursorPosition", p1, as_u16(param_or(a.params, 2, 1))>>)
          [] a.byte = 74 -> Some(<<"EraseInDisplay", as_u8(p1)>>)
          [] a.byte = 75 -> Some(<<"EraseInLine", as_u8(p1)>>)
          [] a.byte = 109 -> Some(<<"Sgr", interpret_sgr(a.params)>>)
          [] OTHER -> NoneOpt
    ELSE NoneOpt

\* AnsiParser::parse: feeds data to the VT parser byte by byte and hands each
\* interpreted command to the callback.  Result: [parser, action, out, panic]
\* (out: the commands the callback received, in order).
RECURSIVE parse_from(_, _, _, _, _)
parse_from(p, a, out, data, checks) ==
    IF data = <<>> THEN [parser |-> p, action |-> a, out |-> out, panic |-> FALSE]
    ELSE LET r == parse_byte(p, Head(data), checks) IN
         IF r.panic
           THEN [parser |-> r.parser, action |-> r.action, out |-> out, panic |-> TRUE]
           ELSE parse_from(r.parser, r.action, out \o interpret_action(r.action),
                           Tail(data), checks)

\* parse starting every call from a fresh VT parser
parse_fresh(p, data, checks) ==
    parse_from([state |-> "Ground", params |-> Params_default, intermediates |-> <<>>],
               ActionNone, <<>>, data, checks)

parse(p, data, checks) == parse_from(p, ActionNone, <<>>, data, checks)

(***************************************************************************)
(* cell.rs: Color, CellAttributes, Cell, Line, Buffer                      *)
(***************************************************************************)
\* Color(u32): the INDEX_FLAG bit and the low 24 bits
CellColor_indexed(index) == [indexed |-> TRUE, value |-> index]
CellColor_rgb(r, g, b)   == [indexed |-> FALSE, value |-> (r * 65536) + (g * 256) + b]

\* struct CellAttributes {} has a single value
CellAttributes_default == <<>>

\* a Default that zeroes the cell (ch is NUL and the colours are Color(0))
Cell_zeroed ==
    [ch |-> "\\0", attrs |-> CellAttributes_default,
     fg |-> CellColor_rgb(0, 0, 0), bg |-> CellColor_rgb(0, 0, 0)]

\* impl Default for Cell
Cell_default ==
    [ch |-> " ", attrs |-> CellAttributes_default,
     fg |-> CellColor_indexed(0), bg |-> CellColor_indexed(0)]

\* Cell::new: ch and attrs given, the rest from Default
Cell_new(ch, attrs) == [Cell_default EXCEPT !.ch = ch, !.attrs = attrs]

\* is_default comparing against a zeroed cell instead of Cell::default()
is_default_zeroed(cell) ==
    cell = [ch |-> "\\0", attrs |-> CellAttributes_default,
            fg |-> CellColor_rgb(0, 0, 0), bg |-> CellColor_rgb(0, 0, 0)]

\* Cell::is_default
is_default(cell) == cell = Cell_default

INLINE_CELLS == 8

\* Line::new.  inline_cells holds the inline_count occupied slots, in slot
\* order (slots from inline_count on are never read); an entry is <<column, cell>>.
Line_new(width) ==
    [inline_cells |-> <<>>, inline_count |-> 0, overflow |-> NoneOpt,
     attributes |-> CellAttributes_default, width |-> width]

\* slice helpers for Vec::insert / Vec::remove / copy_within (1-based index i)
InsertAt(seq, i, e) == SubSeq(seq, 1, i - 1) \o <<e>> \o SubSeq(seq, i, Len(seq))
RemoveAt(seq, i)    == SubSeq(seq, 1, i - 1) \o SubSeq(seq, i + 1, Len(seq))

\* overflow.binary_search_by_key(&x, |(pos, _)| *pos) on a vector sorted by
\* column: [found, idx], idx the match or the insertion point (1-based)
binary_search_by_key(v, x) ==
    IF \E i \in 1..Len(v) : v[i][1] = x
      THEN [found |-> TRUE, idx |-> CHOOSE i \in 1..Len(v) : v[i][1] = x]
      ELSE [found |-> FALSE, idx |-> Cardinality({i \in 1..Len(v) : v[i][1] < x}) + 1]

\* Line::get
Line_get(l, x) ==
    IF x >= l.width THEN Cell_default
    ELSE IF \E i \in 1..l.inline_count : l.inline_cells[i][1] = x
      THEN LET i == CHOOSE j \in 1..l.inline_count :
                      /\ l.inline_cells[j][1] = x
                      /\ \A k \in 1..(j - 1) : l.inline_cells[k][1] # x
           IN  l.inline_cells[i][2]
    ELSE IF IsSome(l.overflow) /\ binary_search_by_key(l.overflow[1], x).found
      THEN l.overflow[1][binary_search_by_key(l.overflow[1], x).idx][2]
    ELSE Cell_default

\* Line::find_insert_position (0-based slot, as in the source)
find_insert_position(l, x) ==
    IF \E i \in 1..l.inline_count : l.inline_cells[i][1] > x
      THEN (CHOOSE i \in 1..l.inline_count :
                /\ l.inline_cells[i][1] > x
                /\ \A k \in 1..(i - 1) : ~(l.inline_cells[k][1] > x)) - 1
      ELSE l.inline_count

\* scan_inline with the `return` inside the `if`: every occupied slot is
\* examined and the function returns only when it found the column
scan_inline_all(l, x, cell) ==
    IF \E i \in 1..l.inline_count : l.inline_cells[i][1] = x THEN
        LET i == CHOOSE j \in 1..l.inline_count : l.inline_cells[j][1] = x IN
        IF is_default(cell)
          THEN [returned |-> TRUE,
                line |-> [l EXCEPT !.inline_cells = RemoveAt(@, i),
                                   !.inline_count = @ - 1]]
          ELSE [returned |-> TRUE,
                line |-> [l EXCEPT !.inline_cells[i] = <<x, cell>>]]
    ELSE [returned |-> FALSE, line |-> l]

\* the inline scan overwriting the slot whatever the cell (no removal)
scan_inline_keep(l, x, cell) ==
    IF l.inline_count = 0 THEN [returned |-> FALSE, line |-> l]
    ELSE IF l.inline_cells[1][1] = x
      THEN [returned |-> TRUE, line |-> [l EXCEPT !.inline_cells[1] = <<x, cell>>]]
    ELSE [returned |-> TRUE, line |-> l]

\* the inline scan never finding the column
scan_inline_blind(l, x, cell) == [returned |-> FALSE, line |-> l]

\* the inline scan treating slot 0 as the slot of column x whatever it holds
scan_inline_slot0(l, x, cell) ==
    IF l.inline_count = 0 THEN [returned |-> FALSE, line |-> l]
    ELSE IF is_default(cell)
      THEN [returned |-> TRUE,
            line |-> [l EXCEPT !.inline_cells = RemoveAt(@, 1), !.inline_count = @ - 1]]
      ELSE [returned |-> TRUE, line |-> [l EXCEPT !.inline_cells[1] = <<x, cell>>]]

\* The inline scan of Line::set (the `for i in 0..inline_count` loop).  Its
\* `return` stands after the `if`, inside the loop body, so the body runs for
\* slot 0 only and the function returns whenever the line has an occupied
\* inline slot.  Result: [returned, line].
scan_inline(l, x, cell) ==
    IF l.inline_count = 0 THEN [returned |-> FALSE, line |-> l]
    ELSE IF l.inline_cells[1][1] = x THEN
        IF is_default(cell)
          THEN [returned |-> TRUE,
                line |-> [l EXCEPT !.inline_cells = RemoveAt(@, 1),
                                   !.inline_count = @ - 1]]
          ELSE [returned |-> TRUE,
                line |-> [l EXCEPT !.inline_cells[1] = <<x, cell>>]]
    ELSE [returned |-> TRUE, line |-> l]

\* Line::set without the `x >= self.width` test
Line_set_unchecked(l, x, cell) ==
    LET scan == scan_inline(l, x, cell) IN
    IF scan.returned THEN scan.line
    ELSE IF is_default(cell) THEN
        IF IsSome(l.overflow) /\ binary_search_by_key(l.overflow[1], x).found
          THEN [l EXCEPT !.overflow =
                   Some(RemoveAt(l.overflow[1], binary_search_by_key(l.overflow[1], x).idx))]
          ELSE l
    ELSE IF l.inline_count < INLINE_CELLS THEN
        LET i == find_insert_position(l, x) IN
        [l EXCEPT !.inline_cells = InsertAt(@, i + 1, <<x, cell>>),
                  !.inline_count = @ + 1]
    ELSE
        LET v == IF IsSome(l.overflow) THEN l.overflow[1] ELSE <<>>
            r == binary_search_by_key(v, x)
        IN  [l EXCEPT !.overflow =
                Some(IF r.found THEN [v EXCEPT ![r.idx] = <<x, cell>>]
                                ELSE InsertAt(v, r.idx, <<x, cell>>))]

\* Line::set
Line_set(l, x, cell) ==
    IF x >= l.width THEN l
    ELSE LET scan == scan_inline(l, x, cell) IN
    IF scan.returned THEN scan.line
    ELSE IF is_default(cell) THEN
        IF IsSome(l.overflow) /\ binary_search_by_key(l.overflow[1], x).found
          THEN [l EXCEPT !.overflow =
                   Some(RemoveAt(l.overflow[1], binary_search_by_key(l.overflow[1], x).idx))]
          ELSE l
    ELSE IF l.inline_count < INLINE_CELLS THEN
        LET i == find_insert_position(l, x) IN
        [l EXCEPT !.inline_cells = InsertAt(@, i + 1, <<x, cell>>),
                  !.inline_count = @ + 1]
    ELSE
        LET v == IF IsSome(l.overflow) THEN l.overflow[1] ELSE <<>>
            r == binary_search_by_key(v, x)
        IN  [l EXCEPT !.overflow =
                Some(IF r.found THEN [v EXCEPT ![r.idx] = <<x, cell>>]
                                ELSE InsertAt(v, r.idx, <<x, cell>>))]

\* Buffer::new
Buffer_new(width, height) ==
    [lines |-> [y \in 1..height |-> Line_new(as_u16(width))],
     width |-> width, height |-> height]

\* Buffer::write_str: the loop over s.chars().enumerate(), from index i on
RECURSIVE write_chars(_, _, _, _, _, _)
write_chars(l, width, x, i, s, attrs) ==
    IF i >= Len(s) \/ x + i >= width THEN l
    ELSE write_chars(Line_set(l, as_u16(x + i), Cell_new(s[i + 1], attrs)),
                     width, x, i + 1, s, attrs)

\* write_str sending a row beyond the last one to the last row
write_str_last_row(b, x, y, s, attrs) ==
    LET row == IF y >= b.height THEN b.height ELSE y + 1 IN
    [b EXCEPT !.lines[row] = write_chars(@, b.width, x, 0, s, attrs)]

write_str(b, x, y, s, attrs) ==
    IF y >= b.height THEN b
    ELSE [b EXCEPT !.lines[y + 1] = write_chars(@, b.width, x, 0, s, attrs)]

(***************************************************************************)
(* Bounds and input alphabets                                              *)
(***************************************************************************)
MaxInput     == 6     \* SpecVT: bytes fed to one parser
MaxDigitRun  == 13    \* SpecDigits: bytes fed (ESC [ and a run of digits)
MaxAnsiInput == 7     \* SpecAnsi: bytes fed through AnsiParser::parse
LineWidth    == 9     \* SpecLine: width of the line
BufWidth     == 4     \* SpecBuffer: Buffer::new(width, _)
BufHeight    == 2     \* SpecBuffer: Buffer::new(_, height)
MaxStrLen    == 2     \* SpecBuffer: longest string given to write_str
MaxChunks    == 3     \* SpecPty: chunks the child writes
MaxCsiDigits == 2     \* SpecCsi: digits in one CSI sequence
MaxCsiFields == 18    \* SpecCsi: fields (separators + 1) in one CSI sequence
MaxSgrCodes  == 3     \* SpecSgr: longest list drawn from SgrCodes
MaxResumed   == 2     \* SpecPty: calls of Application::resumed
MaxSplitInput == 5    \* SpecSplit: bytes fed through AnsiParser::parse, over all calls

\* one or two bytes of every class parse_byte distinguishes:
\* BEL, ESC, space, '/', '0', '1', ';', 'A', '[', 'm', DEL, 0x80, 0xFF
VTBytes == {7, 27, 32, 47, 48, 49, 59, 65, 91, 109, 127, 128, 255}

\* ESC, '[', digit '9', 'm'
DigitRunBytes == {27, 91, 57, 109}

\* '0', '7', ';', 'A', 'm'
CsiBytes == {48, 55, 59, 65, 109}

\* ESC, '[', '0', '1', '3', ';', 'A', 'm', 'a'
AnsiBytes == {27, 91, 48, 49, 51, 59, 65, 109, 97}
ChunkLens == {1, 2}
AnsiChunks == UNION {[1..n -> AnsiBytes] : n \in ChunkLens}

\* bytes given to one more call of parse in a reachable parser state: those
\* of VTBytes, NUL, US, '~', the other CSI final bytes with a command, and 'a'
InterpBytes == VTBytes \cup {0, 31, 126, 66, 67, 68, 72, 74, 75, 102, 97}
PairBytes   == {27, 91, 49, 65, 97}

\* SGR sequences, given by their codes: no code at all (ESC [ m); every
\* single code 0..60, and 99; the
\* extended colours sel;5;n for every n in 0..255 and sel;2;r;g;b over
\* RgbOperands; and every list of up to MaxSgrCodes codes out of SgrCodes
\* (well-formed and malformed colour directives among them).
RgbOperands == {0, 12, 255}
SgrCodes    == {1, 2, 5, 9, 38}
SgrInputs ==
    {<<>>, <<99>>}
      \cup {<<c>> : c \in 0..60}
      \cup {<<sel, 5, n>> : sel \in {38, 48, 58}, n \in 0..255}
      \cup {<<sel, 2, r, g, b>> : sel \in {38, 48, 58}, r \in RgbOperands,
                                   g \in RgbOperands, b \in RgbOperands}
      \cup UNION {[1..n -> SgrCodes] : n \in 1..MaxSgrCodes}

\* the bytes of ESC [ c1 ; c2 ; ... m
RECURSIVE DecimalDigits(_)
DecimalDigits(n) ==
    IF n < 10 THEN <<48 + n>> ELSE DecimalDigits(n \div 10) \o <<48 + (n % 10)>>

RECURSIVE RenderFields(_)
RenderFields(codes) ==
    IF codes = <<>> THEN <<>>
    ELSE IF Len(codes) = 1 THEN DecimalDigits(codes[1])
    ELSE DecimalDigits(codes[1]) \o <<59>> \o RenderFields(Tail(codes))

SgrBytes(codes) == <<27, 91>> \o RenderFields(codes) \o <<109>>

CsiText(fields, F) == <<27, 91>> \o RenderFields(fields) \o <<F>>

\* CSI sequences with parameters at and beyond the range of the command's
\* field, as <<fields, final byte>>: one field with every final byte that has
\* a command, two fields with 'H' and 'f', and the extended colours
NarrowValues == {1, 255, 256, 257, 65535, 65536, 65537, 2147483647}
NarrowInputs ==
    {<<(<<v>>), F>> : v \in NarrowValues, F \in {65, 66, 67, 68, 72, 102, 74, 75}}
      \cup {<<(<<v, w>>), F>> : v \in NarrowValues, w \in NarrowValues, F \in {72, 102}}
      \cup {<<(<<sel, 5, v>>), 109>> : sel \in {38, 48, 58}, v \in NarrowValues}
      \cup {<<(<<sel, 2, r, g, b>>), 109>> : sel \in {38, 48, 58}, r \in {255, 256},
                                            g \in {0, 511}, b \in {65537, 2147483647}}

\* ESC, '[', '0', '1', '2', ';', 'H', 'f', 'J', 'K'
CupBytes == {27, 91, 48, 49, 50, 59, 72, 102, 74, 75}
CupChunks == UNION {[1..n -> CupBytes] : n \in ChunkLens}

\* ESC, '[', '1', ';', 'm'
SplitBytes  == {27, 91, 49, 59, 109}
SplitChunks == UNION {[1..n -> SplitBytes] : n \in ChunkLens}

CellA == Cell_new("a", CellAttributes_default)
CellB == Cell_new("b", CellAttributes_default)
\* a blank that is not the default cell: its foreground is not Color::indexed(0)
CellBlankRed == [Cell_default EXCEPT !.fg = CellColor_indexed(1)]

LineCells == {Cell_default, CellA}
BufCells  == {Cell_default, CellA, CellB, CellBlankRed}
Chars     == {"a", " "}
Strings   == UNION {[1..n -> Chars] : n \in 0..MaxStrLen}

(***************************************************************************)
(* Initial state: a fresh parser, a fresh line and buffer, an application  *)
(* that has not been resumed yet.  The parser's specifications start under *)
(* either build profile (Init); the build profile plays no part in the     *)
(* screen buffer or the PTY session, whose specifications start from       *)
(* InitRelease.                                                            *)
(***************************************************************************)
InitBut(checks) ==
    /\ parser = VTParser_default
    /\ action = ActionNone
    /\ panicked = FALSE
    /\ overflow_checks = checks
    /\ fed = 0
    /\ output = <<>>
    /\ csi = <<>>
    /\ line = Line_new(LineWidth)
    /\ shadow = [x \in 0..(LineWidth - 1) |-> Cell_default]
    /\ buffer = Buffer_new(BufWidth, BufHeight)
    /\ rpc = "unborn"
    /\ rbuf = 0
    /\ rexit = "running"
    /\ pending = <<>>
    /\ produced = 0
    /\ childAlive = FALSE
    /\ chan = <<>>
    /\ sent = <<>>
    /\ decoded = <<>>
    /\ received = <<>>
    /\ wakeups = 0
    /\ redraw = FALSE
    /\ opc = "idle"
    /\ content = <<>>
    /\ app = [window_state |-> FALSE, pty |-> FALSE, window |-> FALSE, exiting |-> FALSE]
    /\ created = [resumed |-> 0, pty |-> 0, reader |-> 0]

Init == \E checks \in BOOLEAN : InitBut(checks)

InitRelease == InitBut(FALSE)

(***************************************************************************)
(* Escape-sequence parser: one call of VTParser::parse_byte                *)
(***************************************************************************)
FeedByte(b) ==
    /\ ~panicked
    /\ LET r == parse_byte(parser, b, overflow_checks) IN
         /\ parser' = r.parser
         /\ action' = r.action
         /\ panicked' = r.panic
    /\ fed' = fed + 1
    /\ UNCHANGED <<overflow_checks, output, csi, lineVars, bufVars, ptyVars>>

ParseByte(b) == fed < MaxInput /\ FeedByte(b)

NextVT == \E b \in VTBytes : ParseByte(b)

SpecVT == Init /\ [][NextVT]_vars

\* long digit runs, over a small alphabet
ParseDigitRun(b) == fed < MaxDigitRun /\ FeedByte(b)

NextDigits == \E b \in DigitRunBytes : ParseDigitRun(b)

SpecDigits == Init /\ [][NextDigits]_vars

\* one CSI sequence, byte by byte: ESC, '[', parameter bytes, a final byte.
\* csi records the bytes fed.
Count(seq, S) == Cardinality({i \in 1..Len(seq) : seq[i] \in S})

CsiFeed(b) ==
    /\ ~panicked
    /\ IF Len(csi) = 0 THEN b = 27
       ELSE IF Len(csi) = 1 THEN b = 91
       ELSE /\ parser.state \in {"CsiEntry", "CsiParam"}
            /\ b \in CsiBytes
            /\ b \in 48..57 => Count(csi, 48..57) < MaxCsiDigits
            /\ b = 59 => Count(csi, {59}) < MaxCsiFields - 1
    /\ LET r == parse_byte(parser, b, overflow_checks) IN
         /\ parser' = r.parser
         /\ action' = r.action
         /\ panicked' = r.panic
    /\ csi' = Append(csi, b)
    /\ fed' = fed + 1
    /\ UNCHANGED <<overflow_checks, output, lineVars, bufVars, ptyVars>>

NextCsi == \E b \in {27, 91} \cup CsiBytes : CsiFeed(b)

SpecCsi == Init /\ [][NextCsi]_vars

(***************************************************************************)
(* Command interpreter: one call of AnsiParser::parse on a chunk of input  *)
(***************************************************************************)
AnsiParse(data) ==
    /\ ~panicked
    /\ fed + Len(data) <= MaxAnsiInput
    /\ LET r == parse(parser, data, overflow_checks) IN
         /\ parser' = r.parser
         /\ action' = r.action
         /\ output' = r.out
         /\ panicked' = r.panic
    /\ fed' = fed + Len(data)
    /\ UNCHANGED <<overflow_checks, csi, lineVars, bufVars, ptyVars>>

NextAnsi == \E data \in AnsiChunks : AnsiParse(data)

SpecAnsi == Init /\ [][NextAnsi]_vars

\* the same call, on input made of cursor-position and erase sequences
NextCup == \E data \in CupChunks : AnsiParse(data)

SpecCup == Init /\ [][NextCup]_vars

\* one call of AnsiParser::parse of a fresh parser on a whole SGR sequence;
\* csi records the bytes given
SgrSequence(codes) ==
    /\ ~panicked
    /\ fed = 0
    /\ LET data == SgrBytes(codes)
           r    == parse(parser, data, overflow_checks)
       IN  /\ parser' = r.parser
           /\ action' = r.action
           /\ output' = r.out
           /\ panicked' = r.panic
           /\ csi' = data
           /\ fed' = Len(data)
    /\ UNCHANGED <<overflow_checks, lineVars, bufVars, ptyVars>>

NextSgr == \E codes \in SgrInputs : SgrSequence(codes)

SpecSgr == Init /\ [][NextSgr]_vars

\* one call of AnsiParser::parse of a fresh parser on a whole CSI sequence
\* given by its fields and final byte; csi records the bytes given
CsiSequence(fields, F) ==
    /\ ~panicked
    /\ fed = 0
    /\ LET data == CsiText(fields, F)
           r    == parse(parser, data, overflow_checks)
       IN  /\ parser' = r.parser
           /\ action' = r.action
           /\ output' = r.out
           /\ panicked' = r.panic
           /\ csi' = data
           /\ fed' = Len(data)
    /\ UNCHANGED <<overflow_checks, lineVars, bufVars, ptyVars>>

NextNarrow == \E in \in NarrowInputs : CsiSequence(in[1], in[2])

SpecNarrow == Init /\ [][NextNarrow]_vars

\* successive calls of AnsiParser::parse on one parser with a callback that
\* pushes onto one vector (|cmd| output.push(cmd)): output collects the
\* commands of all the calls, csi the bytes of all the chunks
AnsiParseCollect(data) ==
    /\ ~panicked
    /\ fed + Len(data) <= MaxSplitInput
    /\ LET r == parse(parser, data, overflow_checks) IN
         /\ parser' = r.parser
         /\ action' = r.action
         /\ output' = output \o r.out
         /\ panicked' = r.panic
    /\ csi' = csi \o data
    /\ fed' = fed + Len(data)
    /\ UNCHANGED <<overflow_checks, lineVars, bufVars, ptyVars>>

NextSplit == \E data \in SplitChunks : AnsiParseCollect(data)

SpecSplit == Init /\ [][NextSplit]_vars

(***************************************************************************)
(* Screen buffer                                                           *)
(***************************************************************************)
\* Line::set on the line; shadow records the cell most recently set per column
LineSet(x, cell) ==
    /\ line' = Line_set(line, x, cell)
    /\ shadow' = IF x < LineWidth THEN [shadow EXCEPT ![x] = cell] ELSE shadow
    /\ UNCHANGED <<vtVars, bufVars, ptyVars>>

NextLine == \E x \in 0..LineWidth, cell \in LineCells : LineSet(x, cell)

SpecLine == InitRelease /\ [][NextLine]_vars

\* Buffer::write_str
WriteStr(x, y, s) ==
    /\ buffer' = write_str(buffer, x, y, s, CellAttributes_default)
    /\ UNCHANGED <<vtVars, lineVars, ptyVars>>

\* Line::set on row y of the buffer
BufLineSet(y, x, cell) ==
    /\ buffer' = [buffer EXCEPT !.lines[y + 1] = Line_set(@, x, cell)]
    /\ UNCHANGED <<vtVars, lineVars, ptyVars>>

NextBuffer ==
    \/ \E x \in 0..BufWidth, y \in 0..BufHeight, s \in Strings : WriteStr(x, y, s)
    \/ \E y \in 0..(BufHeight - 1), x \in 0..BufWidth, cell \in BufCells : BufLineSet(y, x, cell)

SpecBuffer == InitRelease /\ [][NextBuffer]_vars

(***************************************************************************)
(* PTY session (pty.rs) and its owner (application.rs).                    *)
(* Two threads: the event loop, which runs the ApplicationHandler          *)
(* callbacks one at a time, and the reader thread started by Pty::new,     *)
(* which runs Pty::read_output.  The threads meet at the mpsc channel, at  *)
(* the window's redraw flag and at the master descriptor, so each access   *)
(* to one of these is a step of its own.                                   *)
(*                                                                         *)
(* A chunk is what one read of the master descriptor returns:              *)
(* [id, utf8], id its position in the child's output.                      *)
(***************************************************************************)
IsPrefix(s, t) == Len(s) <= Len(t) /\ SubSeq(t, 1, Len(s)) = s

\* never returning early from resumed
resumed_returns_never(a) == FALSE

\* Application::resumed: `if self.window_state.is_some() { return; }`
resumed_returns(a) == a.window_state

\* Application::resumed, called by the event loop while the Application
\* lives: returns at once when a window exists; otherwise creates the window
\* and the Pty (Pty::new forks the shell and spawns one reader thread)
Resumed ==
    /\ opc = "idle"
    /\ app.exiting => app.window
    /\ created.resumed < MaxResumed
    /\ IF resumed_returns(app)
         THEN /\ created' = [created EXCEPT !.resumed = @ + 1]
              /\ UNCHANGED <<app, childAlive, rpc>>
         ELSE /\ app' = [app EXCEPT !.window_state = TRUE, !.window = TRUE, !.pty = TRUE]
              /\ childAlive' = TRUE
              /\ rpc' = "select"
              /\ created' = [resumed |-> created.resumed + 1, pty |-> created.pty + 1,
                             reader |-> created.reader + 1]
    /\ UNCHANGED <<vtVars, lineVars, bufVars, rexit, rbuf, pending, produced, chan, sent,
                   decoded, received, wakeups, redraw, opc, content>>

\* the shell writes to its terminal
ChildWrite ==
    /\ childAlive
    /\ produced < MaxChunks
    /\ produced' = produced + 1
    /\ \E ok \in BOOLEAN : pending' = Append(pending, [id |-> produced + 1, utf8 |-> ok])
    /\ UNCHANGED <<vtVars, lineVars, bufVars, created, rexit, rpc, rbuf, childAlive, chan, sent,
                   decoded, received, wakeups, redraw, opc, content, app>>

\* the shell exits: the slave side is closed
ChildExit ==
    /\ childAlive
    /\ childAlive' = FALSE
    /\ UNCHANGED <<vtVars, lineVars, bufVars, created, rexit, rpc, rbuf, pending, produced, chan, sent,
                   decoded, received, wakeups, redraw, opc, content, app>>

\* read_output: select(None, &mut fd_set, None, None, None).  It returns Ok
\* once the descriptor is readable (data, or the hang-up of the slave side)
\* and Err when the wait fails: Err(EINTR) when a signal handler ran during
\* the wait, Err of another errno otherwise.  The arm is Err(_) => break for
\* both.
ReaderSelect ==
    /\ rpc = "select"
    /\ \/ \* Ok(_)
          /\ (pending # <<>> \/ ~childAlive)
          /\ rpc' = "read"
          /\ UNCHANGED rexit
       \/ \* Err(EINTR): break
          /\ rpc' = "done"
          /\ rexit' = "select_eintr"
       \/ \* Err(other): break
          /\ rpc' = "done"
          /\ rexit' = "select_error"
    /\ UNCHANGED <<vtVars, lineVars, bufVars, created, rbuf, pending, produced, childAlive, chan,
                   sent, decoded, received, wakeups, redraw, opc, content, app>>

\* read_output leaving the loop when String::from_utf8 fails
ReaderRead_stop_on_bad ==
    /\ rpc = "read"
    /\ \/ \* Ok(n), n > 0, and String::from_utf8 succeeds
          /\ pending # <<>> /\ Head(pending).utf8
          /\ rbuf' = Head(pending).id
          /\ decoded' = Append(decoded, Head(pending).id)
          /\ pending' = Tail(pending)
          /\ rpc' = "send"
          /\ UNCHANGED rexit
       \/ \* Ok(n), n > 0, and String::from_utf8 fails: the chunk is dropped
          /\ pending # <<>> /\ ~Head(pending).utf8
          /\ pending' = Tail(pending)
          /\ rpc' = "done"
          /\ rexit' = "read_error"
          /\ UNCHANGED <<rbuf, decoded>>
       \/ \* Ok(0): end of file
          /\ pending = <<>>
          /\ rpc' = "done"
          /\ rexit' = "eof"
          /\ UNCHANGED <<rbuf, decoded, pending>>
       \/ \* Err(e), e.kind() == Interrupted: continue
          /\ rpc' = "select"
          /\ UNCHANGED <<rbuf, decoded, pending, rexit>>
       \/ \* Err(_): break
          /\ rpc' = "done"
          /\ rexit' = "read_error"
          /\ UNCHANGED <<rbuf, decoded, pending>>
    /\ UNCHANGED <<vtVars, lineVars, bufVars, created, produced, childAlive, chan, sent,
                   received, wakeups, redraw, opc, content, app>>

\* read_output: file.read(&mut buf) and the match on its result
ReaderRead ==
    /\ rpc = "read"
    /\ \/ \* Ok(n), n > 0, and String::from_utf8 succeeds
          /\ pending # <<>> /\ Head(pending).utf8
          /\ rbuf' = Head(pending).id
          /\ decoded' = Append(decoded, Head(pending).id)
          /\ pending' = Tail(pending)
          /\ rpc' = "send"
          /\ UNCHANGED rexit
       \/ \* Ok(n), n > 0, and String::from_utf8 fails: the chunk is dropped
          /\ pending # <<>> /\ ~Head(pending).utf8
          /\ pending' = Tail(pending)
          /\ rpc' = "select"
          /\ UNCHANGED <<rbuf, decoded, rexit>>
       \/ \* Ok(0): end of file
          /\ pending = <<>>
          /\ rpc' = "done"
          /\ rexit' = "eof"
          /\ UNCHANGED <<rbuf, decoded, pending>>
       \/ \* Err(e), e.kind() == Interrupted: continue
          /\ rpc' = "select"
          /\ UNCHANGED <<rbuf, decoded, pending, rexit>>
       \/ \* Err(_): break
          /\ rpc' = "done"
          /\ rexit' = "read_error"
          /\ UNCHANGED <<rbuf, decoded, pending>>
    /\ UNCHANGED <<vtVars, lineVars, bufVars, created, produced, childAlive, chan, sent,
                   received, wakeups, redraw, opc, content, app>>

\* read_output: tx.send(s); it fails once the Receiver (Pty.output_rx) is dropped
ReaderSend ==
    /\ rpc = "send"
    /\ IF app.pty
         THEN /\ chan' = Append(chan, rbuf)
              /\ sent' = Append(sent, rbuf)
              /\ rpc' = "wake"
              /\ UNCHANGED rexit
         ELSE /\ rpc' = "done"
              /\ rexit' = "send_failed"
              /\ UNCHANGED <<chan, sent>>
    /\ UNCHANGED <<vtVars, lineVars, bufVars, created, rbuf, pending, produced, childAlive,
                   decoded, received, wakeups, redraw, opc, content, app>>

\* the reader going back to select without requesting a redraw
ReaderWake_silent ==
    /\ rpc = "wake"
    /\ rpc' = "select"
    /\ UNCHANGED <<vtVars, lineVars, bufVars, created, rexit, rbuf, pending, produced, childAlive, chan,
                   sent, decoded, received, content, opc, app, redraw, wakeups>>

\* read_output: if let Some(window) = window.upgrade() { window.request_redraw() }
ReaderWake ==
    /\ rpc = "wake"
    /\ IF app.window
         THEN redraw' = TRUE /\ wakeups' = wakeups + 1
         ELSE UNCHANGED <<redraw, wakeups>>
    /\ rpc' = "select"
    /\ UNCHANGED <<vtVars, lineVars, bufVars, created, rexit, rbuf, pending, produced, childAlive, chan,
                   sent, decoded, received, content, opc, app>>

\* Receiver::try_recv on the queue of the channel: Ok(chunk) while a chunk is
\* queued; on an empty queue Err(Disconnected) once the Sender is dropped (the
\* reader owns it and drops it when read_output returns), Err(Empty) before.
\* [tag, value, chan], chan the queue left.
try_recv(ch) ==
    IF ch # <<>> THEN [tag |-> "Ok", value |-> Head(ch), chan |-> Tail(ch)]
    ELSE IF rpc = "done" THEN [tag |-> "Disconnected", value |-> 0, chan |-> ch]
    ELSE [tag |-> "Empty", value |-> 0, chan |-> ch]

\* Result::ok
ok(r) == IF r.tag = "Ok" THEN Some(r.value) ELSE NoneOpt

\* try_read taking the newest queued chunk instead of the oldest
try_read_newest(ch) ==
    IF ch = <<>> THEN [value |-> NoneOpt, chan |-> ch]
    ELSE [value |-> Some(ch[Len(ch)]), chan |-> SubSeq(ch, 1, Len(ch) - 1)]

\* Pty::try_read: output_rx.try_recv().ok() on the queue of the channel:
\* [value, chan], value the Option returned and chan the queue left
try_read(ch) ==
    LET r == try_recv(ch) IN [value |-> ok(r), chan |-> r.chan]

\* WindowEvent::Resized: state.window.request_redraw()
Resized ==
    /\ opc = "idle"
    /\ app.window_state /\ ~app.exiting
    /\ redraw' = TRUE
    /\ UNCHANGED <<vtVars, lineVars, bufVars, created, rexit, rpc, rbuf, pending, produced, childAlive,
                   chan, sent, decoded, received, wakeups, opc, content, app>>

\* WindowEvent::RedrawRequested is delivered: the pending request is taken
\* and the handler runs up to its drain loop
RedrawRequested ==
    /\ opc = "idle"
    /\ redraw
    /\ app.window_state /\ ~app.exiting
    /\ redraw' = FALSE
    /\ opc' = IF app.pty THEN "drain" ELSE "idle"
    /\ UNCHANGED <<vtVars, lineVars, bufVars, created, rexit, rpc, rbuf, pending, produced, childAlive,
                   chan, sent, decoded, received, wakeups, content, app>>

\* the handler with `if let` for `while let`: one chunk per redraw
Drain_once ==
    /\ opc = "drain"
    /\ LET r == try_read(chan) IN
         IF IsSome(r.value)
           THEN /\ chan' = r.chan
                /\ content' = Append(content, r.value[1])
                /\ received' = Append(received, r.value[1])
           ELSE UNCHANGED <<chan, content, received>>
    /\ opc' = "idle"
    /\ UNCHANGED <<vtVars, lineVars, bufVars, created, rexit, rpc, rbuf, pending, produced, childAlive,
                   sent, decoded, wakeups, redraw, app>>

\* one evaluation of `while let Some(output) = pty.try_read()` with its body:
\* content.push_str(&output); on None the loop ends and the handler renders
\* and returns
Drain ==
    /\ opc = "drain"
    /\ LET r == try_read(chan) IN
         IF IsSome(r.value)
           THEN /\ chan' = r.chan
                /\ content' = Append(content, r.value[1])
                /\ received' = Append(received, r.value[1])
                /\ opc' = "drain"
           ELSE /\ opc' = "idle"
                /\ UNCHANGED <<chan, content, received>>
    /\ UNCHANGED <<vtVars, lineVars, bufVars, created, rexit, rpc, rbuf, pending, produced, childAlive,
                   sent, decoded, wakeups, redraw, app>>

\* Application::exiting: self.pty = None drops the Pty: its File, its
\* Receiver (with the chunks still queued) and its JoinHandle (the reader is
\* detached; it keeps its own clone of the descriptor)
Exiting ==
    /\ opc = "idle"
    /\ app.window_state /\ ~app.exiting
    /\ app' = [app EXCEPT !.pty = FALSE, !.exiting = TRUE]
    /\ chan' = <<>>
    /\ UNCHANGED <<vtVars, lineVars, bufVars, created, rexit, rpc, rbuf, pending, produced, childAlive,
                   sent, decoded, received, wakeups, redraw, opc, content>>

\* run_app returns and main drops the Application, and with it the last
\* Arc<Window>: window.upgrade() fails from now on
AppDropped ==
    /\ app.exiting /\ app.window
    /\ app' = [app EXCEPT !.window = FALSE, !.window_state = FALSE]
    /\ UNCHANGED <<vtVars, lineVars, bufVars, created, rexit, rpc, rbuf, pending, produced, childAlive,
                   chan, sent, decoded, received, wakeups, redraw, opc, content>>

NextPty ==
    \/ Resumed
    \/ ChildWrite
    \/ ChildExit
    \/ ReaderSelect
    \/ ReaderRead
    \/ ReaderSend
    \/ ReaderWake
    \/ Resized
    \/ RedrawRequested
    \/ Drain
    \/ Exiting
    \/ AppDropped

SpecPty == InitRelease /\ [][NextPty]_vars

\* The reader thread is scheduled: a step it can take without waiting for
\* the descriptor is eventually taken.  The event loop keeps delivering
\* redraw requests and its handler runs to completion.
FairSpecPty ==
    /\ SpecPty
    /\ WF_vars(ReaderSend)
    /\ WF_vars(ReaderWake)
    /\ WF_vars(RedrawRequested)
    /\ WF_vars(Drain)

\* The same, and the reader's system calls complete: select returns once the
\* descriptor is readable, and a read of a readable descriptor ends in data,
\* end of file or an error after finitely many interruptions.
FairSpecSession ==
    /\ FairSpecPty
    /\ WF_vars(ReaderSelect /\ rpc' = "read")
    /\ SF_vars(ReaderRead /\ (pending' # pending \/ rpc' = "done"))

(***************************************************************************)
(*                              Properties                                 *)
(***************************************************************************)

\* The transition table of the escape-sequence parser, as specified: the
\* (state, byte) pairs that have an entry.
InTransitionTable(st, b) ==
    \/ st = "Ground" /\ b \in 0..127
    \/ st = "Escape" /\ (b = 91 \/ b \in 32..47 \/ b \in 48..126)
    \/ st \in {"CsiEntry", "CsiParam"} /\ (b \in 48..57 \/ b = 59 \/ b \in 64..126)

\* C1: whatever bytes have been fed to a fresh parser, no parse_byte call has
\* failed, the parser is in a declared state, and the next call, for every
\* byte 0..255, returns an action without failing and leaves the parser in a
\* declared state; a (state, byte) pair outside the transition table yields
\* no action and puts the parser in Ground.
C1_ParseByteNeverFails ==
    /\ ~panicked
    /\ parser.state \in State
    /\ \A b \in 0..255 :
         LET r == parse_byte(parser, b, overflow_checks) IN
           /\ ~r.panic
           /\ r.parser.state \in State
           /\ ~InTransitionTable(parser.state, b) =>
                 (r.action = ActionNone /\ r.parser.state = "Ground")

\* C2: after any sequence of Line::set calls, Line::get agrees at every
\* column with the cell most recently set there (the default cell if none
\* was): the line is a total map from column to cell.
C2_LineIsTotalMap ==
    \A x \in 0..(LineWidth - 1) : Line_get(line, x) = shadow[x]

\* C3: in every buffer state, after write_str(x, y, s, attrs) with
\* y < height, every column x + i < width of row y holds the i-th character
\* of s.
C3_WriteStrWritesEveryChar ==
    \A x \in 0..BufWidth, y \in 0..(BufHeight - 1), s \in Strings :
      LET b2 == write_str(buffer, x, y, s, CellAttributes_default) IN
        \A i \in 0..(Len(s) - 1) :
          x + i < buffer.width => Line_get(b2.lines[y + 1], x + i).ch = s[i + 1]

InlineColumns(l)   == {l.inline_cells[i][1] : i \in 1..l.inline_count}
OverflowEntries(l) == IF IsSome(l.overflow) THEN l.overflow[1] ELSE <<>>
OverflowColumns(l) == {OverflowEntries(l)[i][1] : i \in 1..Len(OverflowEntries(l))}
Entries(l) ==
    {l.inline_cells[i] : i \in 1..l.inline_count}
      \cup {OverflowEntries(l)[i] : i \in 1..Len(OverflowEntries(l))}

IsBlank(s) == \A i \in 1..Len(s) : s[i] = " "

C5_NoDefaultCellStored ==
    \A y \in 1..buffer.height :
      LET l == buffer.lines[y] IN
        /\ \A e \in Entries(l) : e[2] # Cell_default
        /\ \A x \in 0..BufWidth : Entries(Line_set(l, x, Cell_default)) \subseteq Entries(l)
        /\ \A x \in 0..BufWidth, s \in {t \in Strings : IsBlank(t)} :
             Entries(write_str(buffer, x, y - 1, s, CellAttributes_default).lines[y])
               \subseteq Entries(l)

\* C5 witness: a row holds a blank cell that is not the default cell (its
\* colour differs), another row holds a letter, and a default write removes
\* an entry.
C5_Witness ==
    /\ \E e \in Entries(buffer.lines[1]) : e[2] = CellBlankRed
    /\ \E e \in Entries(buffer.lines[2]) : e[2] = CellA
    /\ \E x \in 0..(BufWidth - 1) :
         Entries(Line_set(buffer.lines[1], x, Cell_default)) # Entries(buffer.lines[1])

\* The attribute changes a CSI 'm' parameter list stands for, one per
\* recognized code, in parameter order.  An extended colour code (38, 48,
\* 58) takes its selector and operands with it; a malformed one is skipped.
ExtendedArity(rest) ==
    IF Len(rest) >= 2 /\ rest[1] = 5 THEN 2
    ELSE IF Len(rest) >= 4 /\ rest[1] = 2 THEN 4
    ELSE 0

RECURSIVE SgrEach(_)
SgrEach(codes) ==
    IF codes = <<>> THEN <<>>
    ELSE LET code == Head(codes)
             rest == Tail(codes)
             m    == sgr_code(code, rest)
             used == IF code \in {38, 48, 58} THEN ExtendedArity(rest) ELSE 0
         IN  (IF m.ret THEN m.value ELSE <<>>)
               \o SgrEach(SubSeq(rest, used + 1, Len(rest)))

\* the attribute changes among the commands the callback received
RECURSIVE AttributeChanges(_)
AttributeChanges(out) ==
    IF out = <<>> THEN <<>>
    ELSE (IF Head(out)[1] = "Sgr" THEN Head(out)[2] ELSE <<>>)
           \o AttributeChanges(Tail(out))

InCsi == ~panicked /\ parser.state \in {"CsiEntry", "CsiParam"}

\* C6: whenever a CSI 'm' is dispatched with a non-empty parameter list, the
\* callback receives one attribute change per recognized code, in parameter
\* order (ESC[1;31m: Bold, then ForegroundColor(Indexed(1))).
C6_SgrOnePerCode ==
    InCsi =>
      LET r == parse(parser, <<109>>, overflow_checks) IN
        r.action.params # <<>> =>
          AttributeChanges(r.out) = SgrEach(flatten(r.action.params))

CursorName(f) ==
    CASE f = 65 -> "CursorUp" [] f = 66 -> "CursorDown"
      [] f = 67 -> "CursorForward" [] f = 68 -> "CursorBackward"

\* C7: whenever a CSI 'A', 'B', 'C' or 'D' is dispatched, exactly one cursor
\* command is emitted, whose count is the first parameter when that is
\* present and non-zero, and 1 when it is absent or an explicit 0.
C7_CursorCountDefaultsToOne ==
    InCsi =>
      \A f \in 65..68 :
        LET r  == parse(parser, <<f>>, overflow_checks)
            p1 == param_or(r.action.params, 1, 0)
        IN  r.out = << <<CursorName(f), IF p1 # 0 THEN p1 ELSE 1>> >>

\* C8: the chunks try_read has returned are, in order, the first of the
\* chunks the reader decoded; while the session is open they are, with the
\* chunks still queued, exactly the chunks sent; and a call takes the oldest
\* queued chunk and no other.
C8_TryReadIsFifoPrefix ==
    /\ IsPrefix(received, decoded)
    /\ app.pty => received \o chan = sent
    /\ LET r == try_read(chan) IN
         IF chan = <<>> THEN r.value = NoneOpt /\ r.chan = chan
         ELSE r.value \o r.chan = chan

\* C8 witness: two chunks have been received, in order, while a third is queued.
C8_Witness == Len(received) >= 2 /\ chan # <<>> /\ app.pty

\* C9: the reader never signals more wakeups than it pushed chunks; while the
\* window is alive every push has had its wakeup as soon as the reader has
\* moved on from it; and the reader does move on (the wakeup is issued).
C9_WakeupAfterEveryPush ==
    /\ [](wakeups <= Len(sent))
    /\ []((rpc # "wake" /\ app.window) => wakeups = Len(sent))
    /\ []((rpc = "wake") => <>(rpc # "wake"))

\* C9 witness: two pushes have been signalled and a chunk is still queued.
C9_Witness == wakeups >= 2 /\ chan # <<>> /\ rpc = "select"

Range(q) == {q[i] : i \in 1..Len(q)}

\* C10: every chunk the reader decoded is eventually appended to the
\* application's content, unless the session is closed first; and the content
\* is at all times a prefix of the decoded chunks, in the order read.
C10_ChunkEventuallyDrained ==
    /\ [](IsPrefix(content, decoded))
    /\ \A k \in 1..MaxChunks :
         (k \in Range(decoded)) ~> (k \in Range(content) \/ ~app.pty)

\* C10 witness: two chunks have been appended, in order, and the session is open.
C10_Witness == Len(content) >= 2 /\ app.pty /\ opc = "idle"

\* C11: once the session has been closed (Application::exiting has dropped
\* the Pty), the reader thread eventually leaves its loop, whether or not the
\* child writes anything more.
C11_ReaderExitsAfterClose == app.exiting ~> (rpc = "done")

\* C12: the reader has left its loop only through end of file, an I/O error
\* other than an interruption, or a failed send; an interrupted wait or read
\* never ends the loop.
C12_ReaderExitCauses ==
    rpc = "done" => rexit \in {"eof", "read_error", "select_error", "send_failed"}

\* C26: a read whose bytes are not UTF-8 takes exactly that chunk off the
\* descriptor and returns the reader to select, with nothing pushed, no
\* wakeup and nothing kept; what was pushed and what was appended are at all
\* times the first decodable chunks, in the order the child wrote them; and
\* a decodable chunk waiting on the descriptor, whatever was discarded before
\* it, is eventually appended to the content (unless the session is closed
\* or the reader has left its loop on end of file or an error).
C26_UndecodableChunkDiscarded ==
    /\ [][(rpc = "read" /\ pending # <<>> /\ ~Head(pending).utf8
              /\ pending' = Tail(pending))
            => (rpc' = "select"
                  /\ UNCHANGED <<chan, sent, decoded, rbuf, wakeups, redraw, rexit>>)]_vars
    /\ [](IsPrefix(sent, decoded) /\ IsPrefix(content, decoded))
    /\ [](\A i \in 1..Len(decoded) : \A j \in 1..Len(decoded) :
              i < j => decoded[i] < decoded[j])
    /\ \A k \in 1..MaxChunks :
          (\E i \in 1..Len(pending) : pending[i] = [id |-> k, utf8 |-> TRUE])
             ~> (k \in Range(content) \/ ~app.pty \/ rpc = "done")

\* C26 witness: the child wrote two chunks, the first was discarded and the
\* second has been appended to the content
C26_Witness ==
    /\ produced = 2
    /\ pending = <<>>
    /\ decoded = <<2>>
    /\ content = <<2>>

\* the cell Cell::default() is documented to be: a blank with
\* Color::indexed(0) as foreground and background
BlankCell ==
    [ch |-> " ", attrs |-> <<>>,
     fg |-> [indexed |-> TRUE, value |-> 0], bg |-> [indexed |-> TRUE, value |-> 0]]

StoredCount(l) == l.inline_count + Len(OverflowEntries(l))

\* C27: with k the number of columns whose latest write is a non-default
\* cell, min(k, 8) entries are in the inline tier and max(k - 8, 0) in the
\* overflow tier.
C27_TierCounts ==
    LET k == Cardinality({x \in 0..(LineWidth - 1) : shadow[x] # BlankCell}) IN
      /\ line.inline_count = (IF k <= 8 THEN k ELSE 8)
      /\ Len(OverflowEntries(line)) = (IF k <= 8 THEN 0 ELSE k - 8)

\* C28: from every reachable line, for every in-range column x and
\* non-default cell c, set(x, c) followed by set(x, default) leaves x in
\* neither tier, get(x) returning the default cell, and no more stored
\* entries than before.
C28_SetThenUnset ==
    \A x \in 0..(LineWidth - 1), c \in LineCells \ {BlankCell} :
        LET l2 == Line_set(Line_set(line, x, c), x, BlankCell) IN
          /\ x \notin InlineColumns(l2)
          /\ x \notin OverflowColumns(l2)
          /\ Line_get(l2, x) = BlankCell
          /\ StoredCount(l2) <= StoredCount(line)

\* C28 witness: a line holding an entry, at column 3
C28_Witness ==
    /\ line.inline_count = 1
    /\ Line_get(line, 3) = CellA

\* C29: from every reachable line, for every column and cell, the same set
\* performed twice or three times leaves the line as performed once.
C29_SetIdempotent ==
    \A x \in 0..LineWidth, c \in LineCells :
        LET l1 == Line_set(line, x, c)
            l2 == Line_set(l1, x, c)
        IN  /\ l2 = l1
            /\ Line_set(l2, x, c) = l1
            /\ StoredCount(l2) = StoredCount(l1)

\* C29 witness: a line holding the entry most recently set
C29_Witness ==
    /\ line.inline_count = 1
    /\ \E x \in 0..(LineWidth - 1) :
          /\ shadow[x] = CellA
          /\ Line_get(line, x) = CellA
          /\ Line_set(line, x, CellA) = line

\* C30: every line of a fresh buffer, of any width and height, returns the
\* default cell for every column, in range or beyond the width; and in every
\* reachable buffer a get of a column >= width returns the default cell.
C30_GetDefaults ==
    /\ \A w \in 0..(BufWidth + 1), h \in 0..(BufHeight + 1) :
          LET b == Buffer_new(w, h) IN
            /\ Len(b.lines) = h
            /\ \A y \in 1..h, x \in 0..(w + 2) : Line_get(b.lines[y], x) = BlankCell
    /\ \A y \in 1..buffer.height, x \in buffer.width..(buffer.width + 2) :
          Line_get(buffer.lines[y], x) = BlankCell

\* C30 witness: a buffer that is no longer fresh
C30_Witness ==
    /\ buffer # Buffer_new(BufWidth, BufHeight)
    /\ Line_get(buffer.lines[1], 0) = CellA
    /\ Line_get(buffer.lines[1], BufWidth) = BlankCell

\* C25: once the reader has left its loop and every queued chunk has been
\* received, what try_read returns to the owner differs from what it returns
\* on a channel that is open and empty for now.
C25_ClosureObservable ==
    (app.pty /\ rpc = "done" /\ chan = <<>>) =>
        try_read(chan).value # ok([tag |-> "Empty", value |-> 0, chan |-> <<>>])

\* The fields of a CSI sequence read off its bytes: the body (the bytes
\* between ESC [ and the final byte) cut at every ';', and the decimal value
\* of a digit string.
RECURSIVE SplitFields(_, _, _)
SplitFields(rest, cur, acc) ==
    IF rest = <<>> THEN Append(acc, cur)
    ELSE IF Head(rest) = 59 THEN SplitFields(Tail(rest), <<>>, Append(acc, cur))
    ELSE SplitFields(Tail(rest), Append(cur, Head(rest)), acc)

RECURSIVE DecimalValue(_)
DecimalValue(ds) ==
    IF ds = <<>> THEN 0
    ELSE DecimalValue(SubSeq(ds, 1, Len(ds) - 1)) * 10 + (ds[Len(ds)] - 48)

FieldValue(f) == IF f = <<>> THEN NoneOpt ELSE Some(DecimalValue(f))

CsiComplete == Len(csi) >= 3 /\ csi[Len(csi)] \in 64..126
CsiBody     == SubSeq(csi, 3, Len(csi) - 1)
CsiFields   == SplitFields(CsiBody, <<>>, <<>>)

\* C13: for a sequence ESC [ f1 ; ... ; fn F with at least one parameter byte
\* and n <= 16, no byte before F yields an action, F yields
\* CsiDispatch(F, [v1..vn]) with vi the decimal value of fi (absent when fi is
\* empty), and the parser is in Ground afterwards.  The same for the
\* nine-digit field of the test parameter_values and for the largest i32,
\* under the build profile of the state.
C13_CsiSequenceDispatch ==
    /\ csi = <<>> =>
          /\ parse(parser, <<27, 91, 49, 50, 51, 52, 53, 54, 55, 56, 57, 109>>,
                   overflow_checks).action = CsiDispatch(109, <<Some(123456789)>>)
          /\ LET r == parse(parser,
                            <<27, 91, 50, 49, 52, 55, 52, 56, 51, 54, 52, 55, 59, 48, 65>>,
                            overflow_checks)
             IN  ~r.panic /\ r.action = CsiDispatch(65, <<Some(I32_MAX), Some(0)>>)
                         /\ r.parser.state = "Ground"
    /\ (csi # <<>> /\ ~CsiComplete) => action = ActionNone
    /\ (CsiComplete /\ CsiBody # <<>>) =>
          LET fs == CsiFields IN
            Len(fs) <= 16 =>
              /\ action = CsiDispatch(csi[Len(csi)],
                                      [i \in 1..Len(fs) |-> FieldValue(fs[i])])
              /\ parser.state = "Ground"
              /\ ~panicked

\* C13 witness: ESC [ 7 0 ; ; 7 A... a dispatch of three fields, the first of
\* two digits and the second empty
C13_Witness ==
    /\ CsiComplete
    /\ Len(action.params) = 3
    /\ action.params[1] = Some(70)
    /\ action.params[2] = NoneOpt

\* C14: in a dispatched parameter list a field without digits is None and
\* only such a field is; a field whose digits are all '0' is Some(0).
C14_AbsentIsNotZero ==
    (CsiComplete /\ action.tag = "CsiDispatch") =>
        LET fs == CsiFields IN
          \A i \in 1..Len(action.params) :
              /\ i <= Len(fs)
              /\ (fs[i] = <<>>) <=> (action.params[i] = NoneOpt)
              /\ (fs[i] # <<>> /\ \A j \in 1..Len(fs[i]) : fs[i][j] = 48)
                    => action.params[i] = Some(0)

\* C14 witness: ESC [ ; 0 A dispatches [None, Some(0)]
C14_Witness ==
    /\ CsiComplete
    /\ action.params = <<NoneOpt, Some(0)>>

FieldOr(ps, i, d) == IF Len(ps) >= i /\ ps[i] # NoneOpt THEN ps[i][1] ELSE d

\* C17: in every state inside a CSI sequence, the final byte 'H' or 'f' makes
\* parse emit exactly one command, CursorPosition(row, col), row the first
\* field of the dispatch or 1 and col the second or 1 (fields within u16, the
\* type of row and col); and a fresh parser maps ESC[10;20H to (10,20),
\* ESC[H to (1,1) and ESC[;5H to (1,5).
C17_CursorPosition ==
    /\ fed = 0 =>
          /\ parse(parser, <<27, 91, 49, 48, 59, 50, 48, 72>>, overflow_checks).out
                = << <<"CursorPosition", 10, 20>> >>
          /\ parse(parser, <<27, 91, 72>>, overflow_checks).out
                = << <<"CursorPosition", 1, 1>> >>
          /\ parse(parser, <<27, 91, 59, 53, 72>>, overflow_checks).out
                = << <<"CursorPosition", 1, 5>> >>
    /\ InCsi =>
          \A F \in {72, 102} :
              LET r   == parse(parser, <<F>>, overflow_checks)
                  row == FieldOr(r.action.params, 1, 1)
                  col == FieldOr(r.action.params, 2, 1)
              IN  (row <= 65535 /\ col <= 65535) =>
                      r.out = << <<"CursorPosition", row, col>> >>

\* C17 witness: ESC [ ; 2 H has just been parsed
C17_Witness ==
    /\ action = CsiDispatch(72, <<NoneOpt, Some(2)>>)
    /\ output = << <<"CursorPosition", 1, 2>> >>

\* the output of parse that is the single attribute change sgr
OneSgr(sgr) == << <<"Sgr", Some(sgr)>> >>

\* C19: the sequence of one colour directive yields one Sgr command with:
\* 30..37 / 40..47 -> Foreground / BackgroundColor(Indexed(code - 30 / 40));
\* 39 / 49 -> the Default colour; 38;5;n / 48;5;n -> Indexed(n) for every n in
\* 0..255; 38;2;r;g;b / 48;2;r;g;b -> RGB(r, g, b).
C19_SgrColours ==
    /\ \A c \in 30..37 :
          csi = SgrBytes(<<c>>) => output = OneSgr(<<"ForegroundColor", <<"Indexed", c - 30>> >>)
    /\ \A c \in 40..47 :
          csi = SgrBytes(<<c>>) => output = OneSgr(<<"BackgroundColor", <<"Indexed", c - 40>> >>)
    /\ csi = SgrBytes(<<39>>) => output = OneSgr(<<"ForegroundColor", <<"Default">> >>)
    /\ csi = SgrBytes(<<49>>) => output = OneSgr(<<"BackgroundColor", <<"Default">> >>)
    /\ \A n \in 0..255 :
          /\ csi = SgrBytes(<<38, 5, n>>)
                => output = OneSgr(<<"ForegroundColor", <<"Indexed", n>> >>)
          /\ csi = SgrBytes(<<48, 5, n>>)
                => output = OneSgr(<<"BackgroundColor", <<"Indexed", n>> >>)
    /\ \A r \in RgbOperands, g \in RgbOperands, b \in RgbOperands :
          /\ csi = SgrBytes(<<38, 2, r, g, b>>)
                => output = OneSgr(<<"ForegroundColor", <<"RGB", r, g, b>> >>)
          /\ csi = SgrBytes(<<48, 2, r, g, b>>)
                => output = OneSgr(<<"BackgroundColor", <<"RGB", r, g, b>> >>)

\* C19 witness: ESC[48;2;0;12;255m has been parsed
C19_Witness ==
    /\ csi = SgrBytes(<<48, 2, 0, 12, 255>>)
    /\ output = OneSgr(<<"BackgroundColor", <<"RGB", 0, 12, 255>> >>)

\* C20: a colour directive whose selector is neither 5 nor 2, followed by a
\* recognised code, still yields an attribute change: the sequence is not
\* dropped as a whole.
C20_MalformedColourSkipped ==
    \A sel \in {1, 9}, c \in {1, 9} :
        csi = SgrBytes(<<38, sel, c>>) =>
            /\ Len(output) >= 1
            /\ \A i \in 1..Len(output) : output[i][1] = "Sgr" /\ output[i][2] # NoneOpt

\* C21: ESC [ m dispatches an empty parameter list and yields exactly one
\* command, the attribute change Reset; ESC [ 0 m yields Reset as well.
C21_EmptySgrIsReset ==
    /\ csi = <<27, 91, 109>> =>
          /\ action = CsiDispatch(109, <<>>)
          /\ output = << <<"Sgr", << <<"Reset">> >> >> >>
    /\ csi = <<27, 91, 48, 109>> =>
          /\ action = CsiDispatch(109, << <<0>> >>)
          /\ output = << <<"Sgr", << <<"Reset">> >> >> >>

\* C21 witness: ESC [ m has been parsed
C21_Witness ==
    /\ csi = <<27, 91, 109>>
    /\ output = OneSgr(<<"Reset">>)

\* C22: in every reachable parser state, one more byte given to parse makes
\* it call the callback at most once; not at all when the byte's action is
\* Execute, EscDispatch, the no-op, or a CsiDispatch whose final byte is not
\* one of A B C D H f J K m; with exactly Print(c) when the action is
\* Print(c) (a byte 0x20..0x7F in Ground).  Two bytes given in one call yield
\* the commands of the first followed by those of the second.
C22_CallbackRules ==
    ~panicked =>
      /\ \A b \in InterpBytes :
            LET r == parse(parser, <<b>>, overflow_checks)
                a == r.action
            IN  ~r.panic =>
                  /\ Len(r.out) <= 1
                  /\ a.tag \in {"Execute", "EscDispatch", "None"} => r.out = <<>>
                  /\ (a.tag = "CsiDispatch"
                        /\ a.byte \notin {65, 66, 67, 68, 72, 102, 74, 75, 109}) => r.out = <<>>
                  /\ a.tag = "Print" => r.out = << <<"Print", a.byte>> >>
                  /\ (parser.state = "Ground" /\ b \in 32..127)
                        => r.out = << <<"Print", b>> >>
                  /\ (parser.state = "Ground" /\ b \in 0..31) => r.out = <<>>
      /\ \A b1 \in PairBytes, b2 \in PairBytes :
            LET r1 == parse(parser, <<b1>>, overflow_checks)
                r2 == parse(r1.parser, <<b2>>, overflow_checks)
                r  == parse(parser, <<b1, b2>>, overflow_checks)
            IN  (~r1.panic /\ ~r2.panic) => r.out = r1.out \o r2.out

\* C22 witness: a CSI sequence ended in 'a' and the callback was not called
C22_Witness ==
    /\ action.tag = "CsiDispatch"
    /\ action.byte = 97
    /\ output = <<>>

\* C23: an SGR sequence whose only code is not a recognised one (56, 57, 60,
\* 99) yields no command: the callback is not called.
C23_UnrecognisedSgrIsSilent ==
    \A c \in {56, 57, 60, 99} :
        csi = SgrBytes(<<c>>) => output = <<>>

\* C24: in Ground, a byte 0x20..0x7F returns Print(byte) and a byte
\* 0x00..0x1F other than ESC returns Execute(byte), the parser staying in
\* Ground; ESC returns no action and moves to Escape.
C24_GroundBytes ==
    (parser.state = "Ground" /\ ~panicked) =>
        \A b \in 0..127 :
            LET r == parse_byte(parser, b, overflow_checks) IN
              /\ ~r.panic
              /\ b \in 32..127 =>
                    /\ r.action = [tag |-> "Print", byte |-> b, params |-> <<>>]
                    /\ r.parser.state = "Ground"
              /\ (b \in 0..31 /\ b # 27) =>
                    /\ r.action = [tag |-> "Execute", byte |-> b, params |-> <<>>]
                    /\ r.parser.state = "Ground"
              /\ b = 27 =>
                    /\ r.action = [tag |-> "None", byte |-> 0, params |-> <<>>]
                    /\ r.parser.state = "Escape"

\* C24 witness: two bytes fed, the last one printed, the parser in Ground
C24_Witness ==
    /\ parser.state = "Ground"
    /\ action = [tag |-> "Print", byte |-> 32, params |-> <<>>]
    /\ fed >= 2

\* C18: in every state inside a CSI sequence, the final byte 'J' ('K') makes
\* parse emit EraseInDisplay(mode) (EraseInLine(mode)), mode the first field
\* of the dispatch, or 0 when that field is absent or the list is empty
\* (fields within u8, the type of mode).
C18_EraseModeDefaultsToZero ==
    InCsi =>
        \A F \in {74, 75} :
            LET r    == parse(parser, <<F>>, overflow_checks)
                mode == FieldOr(r.action.params, 1, 0)
            IN  mode <= 255 =>
                    r.out = << <<IF F = 74 THEN "EraseInDisplay" ELSE "EraseInLine", mode>> >>

StoredColumns(l) == InlineColumns(l) \cup OverflowColumns(l)

\* C31: in every reachable buffer, Line::set with a column >= width leaves
\* the line as it is, write_str with y >= height leaves the buffer as it is,
\* and write_str with y < height stores no column >= width, changes no other
\* row and changes nothing at all when x >= width.
C31_OutOfGridWrites ==
    /\ \A y \in 1..buffer.height, x \in buffer.width..(buffer.width + 2), c \in BufCells :
          Line_set(buffer.lines[y], x, c) = buffer.lines[y]
    /\ \A x \in 0..(BufWidth + 1), s \in Strings :
          /\ \A y \in buffer.height..(buffer.height + 1) :
                write_str(buffer, x, y, s, CellAttributes_default) = buffer
          /\ \A y \in 0..(buffer.height - 1) :
                \A b2 \in {write_str(buffer, x, y, s, CellAttributes_default)} :
                  /\ b2.width = buffer.width /\ b2.height = buffer.height
                  /\ \A r \in 1..buffer.height :
                        /\ \A col \in StoredColumns(b2.lines[r]) : col < buffer.width
                        /\ r # y + 1 => b2.lines[r] = buffer.lines[r]
                  /\ x >= buffer.width => b2 = buffer

\* C31 witness: the last column of the first row holds a letter, the second
\* row holds a letter too, and a string written at the last column is
\* clipped after its first character
C31_Witness ==
    /\ Line_get(buffer.lines[1], BufWidth - 1) = CellA
    /\ buffer.lines[2].inline_count = 1
    /\ write_str(buffer, BufWidth - 1, 0, <<"a", "a">>, CellAttributes_default) = buffer

\* C32: at most one Pty is ever built by an application and one reader
\* thread is spawned per Pty: the first call of resumed builds the session,
\* every later call builds nothing, a session that is held is that one, the
\* reader exists exactly when the session was built, and no step taken after
\* exiting builds a session, spawns a reader or puts a session back.
C32_OneSessionOneReader ==
    /\ [](/\ created.pty <= 1
          /\ created.reader = created.pty
          /\ created.resumed >= 1 => created.pty = 1
          /\ app.pty => created.pty = 1
          /\ (rpc = "unborn") <=> (created.reader = 0))
    /\ [][app.exiting => /\ created'.pty = created.pty
                         /\ created'.reader = created.reader
                         /\ ~app'.pty]_vars

\* C32 witness: resumed has been called twice, exiting has run, and the one
\* reader is still in its loop
C32_Witness ==
    /\ created = [resumed |-> 2, pty |-> 1, reader |-> 1]
    /\ app.exiting /\ app.window
    /\ rpc = "select"

\* C33: whatever chunks of one or two bytes the input was cut into, the
\* commands collected over the calls, the parser and the last action are
\* those of one call of parse of a fresh parser on the whole input.
C33_SplitUnobservable ==
    LET whole == parse(VTParser_default, csi, overflow_checks) IN
      /\ ~panicked /\ ~whole.panic
      /\ output = whole.out
      /\ parser = whole.parser
      /\ csi # <<>> => action = whole.action

\* C33 witness: ESC [ 1 m arrived in chunks of at most two bytes, so cut
\* inside the sequence, and Sgr(Bold) was collected, followed by a Print
C33_Witness ==
    /\ csi = <<27, 91, 49, 109, 109>>
    /\ output = << <<"Sgr", Some(<<"Bold">>)>>, <<"Print", 109>> >>

\* C34: whatever bytes were fed, the parser is in Ground, Escape,
\* EscapeIntermediate, CsiEntry or CsiParam and the action returned is Print,
\* Execute, CsiDispatch, EscDispatch or the no-op; the same holds of the next
\* call, for every byte 0..255.
C34_UnreachableVariants ==
    LET LiveStates  == {"Ground", "Escape", "EscapeIntermediate", "CsiEntry", "CsiParam"}
        LiveActions == {"Print", "Execute", "CsiDispatch", "EscDispatch", "None"}
    IN  /\ parser.state \in LiveStates
        /\ action.tag \in LiveActions
        /\ ~panicked =>
              \A b \in 0..255 :
                  LET r == parse_byte(parser, b, overflow_checks) IN
                    /\ r.parser.state \in LiveStates
                    /\ r.action.tag \in LiveActions

\* C34 witness: six bytes were fed, the last two ESC and '/', and the parser
\* stands in EscapeIntermediate
C34_Witness ==
    /\ parser.state = "EscapeIntermediate"
    /\ parser.intermediates = <<47>>
    /\ fed = 6

\* parameter bytes of a CSI sequence: up to two of '1' and ';'
CsiBodies == {<<>>} \cup [1..1 -> {49, 59}] \cup [1..2 -> {49, 59}]

\* C35: a parser in CsiEntry holds an empty accumulator (no stored field, no
\* pending digit, has-digits flag off); and from every reachable state in
\* Ground, whatever an earlier sequence, dispatched or aborted, left in the
\* accumulator, ESC [ body F dispatches the fields of body and nothing else.
C35_DispatchSinceLastCsi ==
    /\ parser.state = "CsiEntry" =>
          parser.params = [data |-> <<>>, current |-> <<>>, has_current |-> FALSE]
    /\ (parser.state = "Ground" /\ ~panicked) =>
          \A body \in CsiBodies, F \in {65, 109} :
              LET r  == parse(parser, <<27, 91>> \o body \o <<F>>, overflow_checks)
                  fs == SplitFields(body, <<>>, <<>>)
              IN  /\ ~r.panic
                  /\ r.action = [tag |-> "CsiDispatch", byte |-> F,
                                 params |-> IF body = <<>> THEN <<>>
                                            ELSE [i \in 1..Len(fs) |-> FieldValue(fs[i])]]

\* C35 witness: a sequence with a stored field and pending digits was
\* aborted by an invalid byte (ESC [ 1 ; 1 0x80): the parser is in Ground and
\* the accumulator still holds them
C35_Witness ==
    /\ parser.state = "Ground"
    /\ parser.params = [data |-> <<Some(1)>>, current |-> Some(1), has_current |-> TRUE]
    /\ action = ActionNone

\* C36: no call has failed; and inside a CSI sequence, for every digit, the
\* next call does not fail, whatever the length of the digit run so far, and
\* the field under construction becomes value * 10 + digit whenever that is
\* at most 2^31 - 1 = 214748364 * 10 + 7.
C36_DigitRunNeverFails ==
    /\ ~panicked
    /\ InCsi =>
          \A d \in 48..57 :
              LET value == unwrap_or(parser.params.current, 0)
                  r     == parse_byte(parser, d, overflow_checks)
              IN  /\ ~r.panic
                  /\ (value >= 0 /\ (value < 214748364 \/ (value = 214748364 /\ d <= 55))) =>
                        r.parser.params.current = <<value * 10 + (d - 48)>>

\* a sequence of <<column, cell>> entries in strictly increasing column order
StrictlyIncreasing(es) == \A i \in 1..Len(es), j \in 1..Len(es) : i < j => es[i][1] < es[j][1]

\* C37: after any sequence of Line::set calls the occupied inline slots are
\* in strictly increasing column order and at most 8, the overflow vector,
\* when present, is in strictly increasing column order, and every stored
\* column is less than the width of the line.
C37_TiersSorted ==
    /\ line.inline_count <= 8
    /\ Len(line.inline_cells) = line.inline_count
    /\ StrictlyIncreasing(line.inline_cells)
    /\ StrictlyIncreasing(OverflowEntries(line))
    /\ line.width = LineWidth
    /\ \A col \in StoredColumns(line) : col \in 0..(line.width - 1)

\* C37 witness: columns 5, 2 and 7 at least were written with a letter, and
\* the line stores the last column
C37_Witness ==
    /\ shadow[5] = CellA /\ shadow[2] = CellA /\ shadow[7] = CellA
    /\ LineWidth - 1 \in StoredColumns(line)

\* C38: in every reachable buffer, Line::set(x, cell) on a row leaves get(x')
\* as it was for every column x' other than x, and write_str(x, y, s) leaves
\* every other row as it was and, in row y, get as it was at every column
\* outside x .. x + len(s) - 1.
C38_SetChangesOneColumn ==
    \A y \in 1..buffer.height :
        LET l == buffer.lines[y] IN
          /\ \A x \in 0..(BufWidth + 1), c \in BufCells :
                \A l2 \in {Line_set(l, x, c)} :
                  \A x2 \in 0..(BufWidth + 1) : x2 # x => Line_get(l2, x2) = Line_get(l, x2)
          /\ \A x \in 0..BufWidth, s \in Strings :
                \A b2 \in {write_str(buffer, x, y - 1, s, CellAttributes_default)} :
                  /\ \A r \in 1..buffer.height : r # y => b2.lines[r] = buffer.lines[r]
                  /\ \A x2 \in 0..BufWidth :
                        x2 \notin x..(x + Len(s) - 1)
                          => Line_get(b2.lines[y], x2) = Line_get(l, x2)

\* C38 witness: the first row holds 'a' at column 2, the second row 'b' at
\* column 0, and a set of column 2 of the first row changes that row
C38_Witness ==
    /\ Line_get(buffer.lines[1], 2) = CellA
    /\ Line_get(buffer.lines[2], 0) = CellB
    /\ Line_set(buffer.lines[1], 2, CellB) # buffer.lines[1]

ColourName(sel) ==
    CASE sel = 38 -> "ForegroundColor" [] sel = 48 -> "BackgroundColor"
      [] sel = 58 -> "UnderlineColor"

\* C39: no sequence is rejected, whatever the size of its parameters.  A
\* cursor count, row or column is the parameter itself up to 65535 and its
\* remainder modulo 2^16 beyond (65536 gives 0, 65537 gives 1, 2^31 - 1 gives
\* 65535); an erase mode is the parameter modulo 2^8; an indexed colour and
\* each RGB component is the operand modulo 2^8 (38;5;256 gives Indexed(0)).
C39_NarrowingTruncates ==
    LET U16(v) == IF v <= 65535 THEN v ELSE v - ((v \div 65536) * 65536)
        U8(v)  == v - ((v \div 256) * 256)
    IN
    /\ ~panicked
    /\ csi # <<>> => Len(output) = 1
    /\ \A v \in NarrowValues :
          /\ \A F \in 65..68 :
                csi = CsiText(<<v>>, F) => output = << <<CursorName(F), U16(v)>> >>
          /\ \A F \in {72, 102} :
                /\ csi = CsiText(<<v>>, F) => output = << <<"CursorPosition", U16(v), 1>> >>
                /\ \A w \in NarrowValues :
                      csi = CsiText(<<v, w>>, F)
                        => output = << <<"CursorPosition", U16(v), U16(w)>> >>
          /\ csi = CsiText(<<v>>, 74) => output = << <<"EraseInDisplay", U8(v)>> >>
          /\ csi = CsiText(<<v>>, 75) => output = << <<"EraseInLine", U8(v)>> >>
          /\ \A sel \in {38, 48, 58} :
                csi = CsiText(<<sel, 5, v>>, 109)
                  => output = OneSgr(<<ColourName(sel), <<"Indexed", U8(v)>> >>)
    /\ \A sel \in {38, 48, 58}, r \in {255, 256}, g \in {0, 511}, b \in {65537, 2147483647} :
          csi = CsiText(<<sel, 2, r, g, b>>, 109)
            => output = OneSgr(<<ColourName(sel), <<"RGB", U8(r), U8(g), U8(b)>> >>)
    /\ csi = CsiText(<<65536>>, 65) => output = << <<"CursorUp", 0>> >>
    /\ csi = CsiText(<<65537, 2147483647>>, 72) => output = << <<"CursorPosition", 1, 65535>> >>
    /\ csi = CsiText(<<257>>, 74) => output = << <<"EraseInDisplay", 1>> >>
    /\ csi = CsiText(<<38, 5, 256>>, 109)
          => output = OneSgr(<<"ForegroundColor", <<"Indexed", 0>> >>)
    /\ csi = CsiText(<<48, 2, 256, 511, 65537>>, 109)
          => output = OneSgr(<<"BackgroundColor", <<"RGB", 0, 255, 1>> >>)

\* C39 witness: ESC[65536A has been parsed into CursorUp(0)
C39_Witness ==
    /\ csi = CsiText(<<65536>>, 65)
    /\ action = CsiDispatch(65, <<Some(65536)>>)
    /\ output = << <<"CursorUp", 0>> >>

\* C40: whenever the parser is in Ground the intermediates buffer is empty:
\* it holds no byte of a sequence that has ended.
C40_IntermediatesPerSequence ==
    parser.state = "Ground" => parser.intermediates = <<>>

====
